---- MODULE Spec2Model ----
(***************************************************************************)
(* Machine-Spirit core utilities: Config (flat key=value store persisted   *)
(* to <home>/.machine_spirit/config.ini) and Paths (well-known             *)
(* directories under <home>/.machine_spirit/).                             *)
(*                                                                         *)
(* Config strings are sequences of one-character strings, so that         *)
(* std::getline, find('=') and substr act on characters as in the code.   *)
(* Paths strings are TLA+ strings joined with \o.                          *)
(***************************************************************************)
EXTENDS Integers, Sequences, FiniteSets, TLC

VARIABLES
    s_values,   \* Config::s_values: the in-memory mapping key -> value
    file,       \* the config file: [exists, data], data a character sequence
    lastOp,     \* the Config call that ran last: [op, key, val, out, prev]
    onDisk,     \* history: the mapping the save() that wrote the file wrote
    recent,     \* history: per key, the latest value given by set() or a loaded line
    home,       \* getenv("HOME") / getenv("USERPROFILE")
    s_root,     \* Paths::s_root
    dirs,       \* the directories that exist on disk
    pathOp      \* the Paths event that came last: [op, out, prev, ever]

configVars == <<s_values, file, lastOp, onDisk, recent>>
pathVars == <<home, s_root, dirs, pathOp>>
vars == <<s_values, file, lastOp, onDisk, recent, home, s_root, dirs, pathOp>>

-----------------------------------------------------------------------------
(* Characters and strings of the config file format *)

EQ == "="
NL == "\n"

\* the size to which the store may grow in a run
MaxEntries == 2

\* keys and values the callers of set()/get() pass
KeyInputs == { <<"a">>, <<"b">> }
ValInputs == { <<"a">>, <<NL>> }

\* keys get() is asked for: those above and the empty key
QueryInputs == KeyInputs \cup { <<>> }

\* what the config file may hold before the program first runs: nothing, or
\* the five lines  b  |  =a  |  a=a  |  (empty)  |  a=b=a  (the last unterminated)
PriorFiles ==
    { <<>>,
      <<"b", NL, EQ, "a", NL, "a", EQ, "a", NL, NL, "a", EQ, "b", EQ, "a">> }

NoFile == [exists |-> FALSE, data |-> <<>>]
FileOf(data) == [exists |-> TRUE, data |-> data]

EmptyMap == [k \in {} |-> <<>>]
\* history: nothing saved yet / the mapping vals was saved
NotSaved == [saved |-> FALSE, vals |-> EmptyMap]
Saved(vals) == [saved |-> TRUE, vals |-> vals]

Put(m, k, v) == [x \in (DOMAIN m) \cup {k} |-> IF x = k THEN v ELSE m[x]]

-----------------------------------------------------------------------------
(* Config::load, lines 29-37: getline loop, split at the first '=' *)

\* index of the first c in s at or after position i, Len(s)+1 when there is none
RECURSIVE IndexFrom(_, _, _)
IndexFrom(s, c, i) ==
    IF i > Len(s) THEN Len(s) + 1
    ELSE IF s[i] = c THEN i
    ELSE IndexFrom(s, c, i + 1)

\* the lines std::getline yields from position i on: each ends at '\n' (dropped)
\* or at end of file; at end of file with nothing extracted the loop stops
RECURSIVE getlines(_, _)
getlines(data, i) ==
    IF i > Len(data) THEN <<>>
    ELSE LET j == IndexFrom(data, NL, i)
         IN  <<SubSeq(data, i, j - 1)>> \o getlines(data, j + 1)

\* variant: rfind, the last '='
find_last(line) ==
    LET S == { i \in 1..Len(line) : line[i] = EQ }
    IN  IF S = {} THEN 0 ELSE CHOOSE i \in S : \A j \in S : j <= i

\* line.find('='): 0 stands for std::string::npos
find(line) ==
    LET p == IndexFrom(line, EQ, 1)
    IN  IF p > Len(line) THEN 0 ELSE p

\* variant: substr(pos) for the value, which keeps the '='
parseLine_keepsEq(vals, line) ==
    LET pos == find(line)
    IN  IF pos = 0 THEN vals
        ELSE Put(vals, SubSeq(line, 1, pos - 1), SubSeq(line, pos, Len(line)))

\* variant: s_values[key] += val
parseLine_appends(vals, line) ==
    LET pos == find(line)
        key == SubSeq(line, 1, pos - 1)
    IN  IF pos = 0 THEN vals
        ELSE Put(vals, key,
                 (IF key \in DOMAIN vals THEN vals[key] ELSE <<>>)
                    \o SubSeq(line, pos + 1, Len(line)))

\* the body of the while loop, applied to one line
parseLine(vals, line) ==
    LET pos == find(line)
    IN  IF pos = 0 THEN vals
        ELSE Put(vals, SubSeq(line, 1, pos - 1), SubSeq(line, pos + 1, Len(line)))

RECURSIVE parseLines(_, _, _)
parseLines(vals, lines, n) ==
    IF n > Len(lines) THEN vals
    ELSE parseLines(parseLine(vals, lines[n]), lines, n + 1)

-----------------------------------------------------------------------------
(* Config::save, lines 40-50 *)

\* the orders in which the unordered_map may be iterated
Orders(S) ==
    { o \in [1..Cardinality(S) -> S] :
        \A i, j \in 1..Cardinality(S) : i # j => o[i] # o[j] }

\* the iteration order matters only when the loop of save() writes
OrdersFor(vals, writes) == IF writes THEN Orders(DOMAIN vals) ELSE {<<>>}

\* variant: the "\n" after each entry left out
RECURSIVE writeEntries_noNewline(_, _, _)
writeEntries_noNewline(vals, order, n) ==
    IF n > Len(order) THEN <<>>
    ELSE order[n] \o <<EQ>> \o vals[order[n]]
            \o writeEntries_noNewline(vals, order, n + 1)

RECURSIVE writeEntries(_, _, _)
writeEntries(vals, order, n) ==
    IF n > Len(order) THEN <<>>
    ELSE order[n] \o <<EQ>> \o vals[order[n]] \o <<NL>>
            \o writeEntries(vals, order, n + 1)

\* io: "ok", "openfail" (the ofstream does not open: nothing is written) or
\* "dirfail" (create_directories fails and throws filesystem_error)
SaveOutcomes(f) == IF f.exists THEN {"ok", "openfail"} ELSE {"ok", "openfail", "dirfail"}

\* variant: the ofstream opened in append mode
save_appends(vals, f, io, order) ==
    IF io = "dirfail" THEN [file |-> f, out |-> "threw"]
    ELSE IF io = "openfail" THEN [file |-> f, out |-> "openfail"]
    ELSE [file |-> FileOf(f.data \o writeEntries(vals, order, 1)), out |-> "ok"]

save(vals, f, io, order) ==
    IF io = "dirfail" THEN [file |-> f, out |-> "threw"]
    ELSE IF io = "openfail" THEN [file |-> f, out |-> "openfail"]
    ELSE [file |-> FileOf(writeEntries(vals, order, 1)), out |-> "ok"]

-----------------------------------------------------------------------------
(* Config::load, lines 18-38 *)

\* variant: a missing file is replaced by an empty one, whatever the store holds
load_writesDefault(vals, f, readable, io, order) ==
    IF ~f.exists
    THEN LET r == save(EmptyMap, f, io, <<>>)
         IN  [vals |-> vals, file |-> r.file,
              out |-> IF r.out = "ok" THEN "created" ELSE r.out]
    ELSE IF ~readable
    THEN [vals |-> vals, file |-> f, out |-> "openfail"]
    ELSE [vals |-> parseLines(vals, getlines(f.data, 1), 1), file |-> f,
          out |-> "parsed"]

\* readable: whether the ifstream opens; io, order: as for save
load(vals, f, readable, io, order) ==
    IF ~f.exists
    THEN LET r == save(vals, f, io, order)
         IN  [vals |-> vals, file |-> r.file,
              out |-> IF r.out = "ok" THEN "created" ELSE r.out]
    ELSE IF ~readable
    THEN [vals |-> vals, file |-> f, out |-> "openfail"]
    ELSE [vals |-> parseLines(vals, getlines(f.data, 1), 1), file |-> f,
          out |-> "parsed"]

-----------------------------------------------------------------------------
(* Config::get, lines 52-55, and the assignment of Config::set, line 58 *)

\* variant: return s_values[key] without the count() test, which inserts
get_inserts(vals, key) ==
    IF key \in DOMAIN vals
    THEN [ret |-> vals[key], vals |-> vals]
    ELSE [ret |-> <<>>, vals |-> Put(vals, key, <<>>)]

get(vals, key) ==
    IF key \in DOMAIN vals
    THEN [ret |-> vals[key], vals |-> vals]
    ELSE [ret |-> <<>>, vals |-> vals]

\* variant: s_values.insert({key, value}), which keeps an existing entry
assign_keepsOld(vals, key, value) ==
    IF key \in DOMAIN vals THEN vals ELSE Put(vals, key, value)

assign(vals, key, value) == Put(vals, key, value)

-----------------------------------------------------------------------------
(* The Config operations as steps *)

\* key and val are kept for get alone (the key asked for, the value returned);
\* prev is kept for load alone: "fresh" when the load is the first call of a
\* process, the outcome of the previous call when that was a load too, "other"
\* otherwise
Op(op, key, val, out) ==
    [op |-> op, key |-> key, val |-> val, out |-> out,
     prev |-> IF op # "load" THEN "other"
              ELSE IF lastOp.op \in {"start", "restart"} THEN "fresh"
              ELSE IF lastOp.op = "load" THEN lastOp.out
              ELSE "other"]

ConfigInit ==
    /\ s_values = EmptyMap
    /\ file \in {NoFile} \cup {FileOf(d) : d \in PriorFiles}
    /\ lastOp = [op |-> "start", key |-> <<>>, val |-> <<>>, out |-> "ok", prev |-> "other"]
    /\ onDisk = NotSaved
    /\ recent = EmptyMap

Config_save(io) ==
    /\ io \in SaveOutcomes(file)
    /\ \E order \in OrdersFor(s_values, io = "ok") :
         LET r == save(s_values, file, io, order)
         IN  /\ file' = r.file
             /\ lastOp' = Op("save", <<>>, <<>>, r.out)
             /\ onDisk' = IF r.out = "ok" THEN Saved(s_values) ELSE onDisk
    /\ UNCHANGED <<s_values, recent>>
    /\ UNCHANGED pathVars

\* the store grows to MaxEntries entries at most by set()
Config_set(key, value, io) ==
    /\ io \in SaveOutcomes(file)
    /\ Cardinality(DOMAIN s_values \cup {key}) <= MaxEntries
    /\ LET vals == assign(s_values, key, value)
       IN  /\ s_values' = vals
           /\ \E order \in OrdersFor(vals, io = "ok") :
                LET r == save(vals, file, io, order)
                IN  /\ file' = r.file
                    /\ lastOp' = Op("set", <<>>, <<>>, r.out)
                    /\ onDisk' = IF r.out = "ok" THEN Saved(vals) ELSE onDisk
    /\ recent' = Put(recent, key, value)
    /\ UNCHANGED pathVars

Config_get(key) ==
    LET r == get(s_values, key)
    IN  /\ s_values' = r.vals
        /\ lastOp' = Op("get", key, r.ret, "ok")
        /\ UNCHANGED <<file, onDisk, recent>>
        /\ UNCHANGED pathVars

\* history only: the entries a file's lines give, the last line of a key winning
HasEq(line) == \E i \in 1..Len(line) : line[i] = EQ
FirstEq(line) == CHOOSE i \in 1..Len(line) : line[i] = EQ /\ \A j \in 1..(i - 1) : line[j] # EQ
KeyOf(line) == SubSeq(line, 1, FirstEq(line) - 1)
ValueOf(line) == SubSeq(line, FirstEq(line) + 1, Len(line))
LinesOf(data) == getlines(data, 1)
LastLineOf(lines, k) ==
    CHOOSE i \in 1..Len(lines) :
        /\ HasEq(lines[i]) /\ KeyOf(lines[i]) = k
        /\ \A j \in (i + 1)..Len(lines) : ~(HasEq(lines[j]) /\ KeyOf(lines[j]) = k)
EntriesOf(data) ==
    LET lines == LinesOf(data)
        keys == { KeyOf(lines[i]) : i \in { n \in 1..Len(lines) : HasEq(lines[n]) } }
    IN  [k \in keys |-> ValueOf(lines[LastLineOf(lines, k)])]
Override(m, n) ==
    [k \in (DOMAIN m) \cup (DOMAIN n) |-> IF k \in DOMAIN n THEN n[k] ELSE m[k]]

\* readable is read only when the file exists, io only when it does not
Config_load(readable, io) ==
    /\ io \in SaveOutcomes(file)
    /\ file.exists => io = "ok"
    /\ ~file.exists => readable
    /\ \E order \in OrdersFor(s_values, ~file.exists /\ io = "ok") :
         LET r == load(s_values, file, readable, io, order)
         IN  /\ s_values' = r.vals
             /\ file' = r.file
             /\ lastOp' = Op("load", <<>>, <<>>, r.out)
             /\ onDisk' = IF r.out = "created" THEN Saved(s_values) ELSE onDisk
             /\ recent' = IF r.out = "parsed"
                           THEN Override(recent, EntriesOf(file.data))
                           ELSE recent
    /\ UNCHANGED pathVars

\* a new process: the static s_values starts empty (line 5), the file stays
Restart ==
    /\ lastOp.op # "start"
    /\ s_values' = EmptyMap
    /\ recent' = EmptyMap
    /\ lastOp' = Op("restart", <<>>, <<>>, "ok")
    /\ UNCHANGED <<file, onDisk>>
    /\ UNCHANGED pathVars

\* something outside the program removes the config file
RemoveFile ==
    /\ file.exists
    /\ file' = NoFile
    /\ onDisk' = NotSaved
    /\ lastOp' = Op("rmfile", <<>>, <<>>, "ok")
    /\ UNCHANGED <<s_values, recent>>
    /\ UNCHANGED pathVars

IOOutcomes == {"ok", "openfail", "dirfail"}

ConfigIdle ==
    /\ s_values = EmptyMap
    /\ file = NoFile
    /\ lastOp = [op |-> "start", key |-> <<>>, val |-> <<>>, out |-> "ok", prev |-> "other"]
    /\ onDisk = NotSaved
    /\ recent = EmptyMap

-----------------------------------------------------------------------------
(* Paths, src/core/Paths.cpp *)

\* getenv gives a null pointer when the variable is unset
NULL == "(null)"
HomeValues == { "/h", "/srv/u", NULL }

\* the categories, in the order init() creates them
Categories ==
    << "config", "logs", "models", "knowledge", "memory", "backups", "themes",
       "hive", "tmp" >>

root == s_root
config == s_root \o "config/"
logs == s_root \o "logs/"
models == s_root \o "models/"
knowledge == s_root \o "knowledge/"
memory == s_root \o "memory/"
backups == s_root \o "backups/"
themes == s_root \o "themes/"
hive == s_root \o "hive/"
tmp == s_root \o "tmp/"

\* the accessors in the order init() calls them, evaluated with s_root = r
accessorsAt(r) ==
    << r \o "config/", r \o "logs/", r \o "models/", r \o "knowledge/",
       r \o "memory/", r \o "backups/", r \o "themes/", r \o "hive/", r \o "tmp/" >>

\* std::filesystem::create_directories(p): p and its missing parents exist after
create_directories(ds, r, p) == ds \cup {r, p}

\* the first n of the nine calls of lines 14-22
RECURSIVE createFirst(_, _, _)
createFirst(ds, r, n) ==
    IF n = 0 THEN ds
    ELSE create_directories(createFirst(ds, r, n - 1), r, accessorsAt(r)[n])

\* line 12
rootOf(h) == h \o "/.machine_spirit/"

\* variant: the last create_directories call, for tmp(), left out
init_skipsTmp(h, ds, n) ==
    [s_root |-> rootOf(h),
     dirs |-> createFirst(ds, rootOf(h), IF n = Len(Categories) THEN n - 1 ELSE n),
     out |-> IF n = Len(Categories) THEN "ok" ELSE "threw"]

\* init() with the first n creations succeeding; n < 9: call n+1 throws
init(h, ds, n) ==
    [s_root |-> rootOf(h),
     dirs |-> createFirst(ds, rootOf(h), n),
     out |-> IF n = Len(Categories) THEN "ok" ELSE "threw"]

PathOp(op, out, ever) ==
    [op |-> op, out |-> out, prev |-> pathOp.op, ever |-> ever]

PathsInit ==
    /\ home \in HomeValues
    /\ s_root = ""
    /\ dirs = {}
    /\ pathOp = [op |-> "start", out |-> "ok", prev |-> "start", ever |-> FALSE]

\* a creation can fail only where the directory does not exist yet
Paths_init(n) ==
    /\ home # NULL
    /\ n \in 0..Len(Categories)
    /\ n < Len(Categories) => accessorsAt(rootOf(home))[n + 1] \notin dirs
    /\ LET r == init(home, dirs, n)
       IN  /\ s_root' = r.s_root
           /\ dirs' = r.dirs
           /\ pathOp' = PathOp("init", r.out, TRUE)
    /\ UNCHANGED home
    /\ UNCHANGED configVars

\* init() with the variable unset: std::string(nullptr) is undefined; the
\* builds throw std::logic_error or fault in strlen, before s_root is assigned
Paths_init_null(outcome) ==
    /\ home = NULL
    /\ outcome \in {"threw", "crashed"}
    /\ pathOp' = PathOp("init", outcome, pathOp.ever)
    /\ UNCHANGED <<home, s_root, dirs>>
    /\ UNCHANGED configVars

\* something outside the program removes a category directory
RemoveDir(d) ==
    /\ d \in dirs
    /\ \E i \in 1..Len(Categories) : d = accessorsAt(rootOf(home))[i]
    /\ dirs' = dirs \ {d}
    /\ pathOp' = PathOp("rmdir", "ok", pathOp.ever)
    /\ UNCHANGED <<home, s_root>>
    /\ UNCHANGED configVars

PathsIdle ==
    /\ home = "/h"
    /\ s_root = ""
    /\ dirs = {}
    /\ pathOp = [op |-> "start", out |-> "ok", prev |-> "start", ever |-> FALSE]

-----------------------------------------------------------------------------
(* Specifications *)

\* the Config store, with I/O that may fail
Init == ConfigInit /\ PathsIdle
Next ==
    \/ \E readable \in BOOLEAN, io \in IOOutcomes : Config_load(readable, io)
    \/ \E io \in IOOutcomes : Config_save(io)
    \/ \E key \in KeyInputs, value \in ValInputs, io \in IOOutcomes :
           Config_set(key, value, io)
    \/ \E key \in QueryInputs : Config_get(key)
    \/ Restart
    \/ RemoveFile
Spec == Init /\ [][Next]_vars

\* the Config store with I/O that always succeeds
Ext_load == Config_load(TRUE, "ok")
Ext_save == Config_save("ok")
Ext_set(key, value) == Config_set(key, value, "ok")
Ext_get(key) == Config_get(key)
Ext_restart == Restart
Ext_remove == RemoveFile
NextExt ==
    \/ Ext_load
    \/ Ext_save
    \/ \E key \in KeyInputs, value \in ValInputs : Ext_set(key, value)
    \/ \E key \in QueryInputs : Ext_get(key)
    \/ Ext_restart
    \/ Ext_remove
SpecExt == Init /\ [][NextExt]_vars

\* the Config store in runs that begin with load(), all I/O succeeding, keys
\* without '=' and newline, values without newline
CleanKeys == { <<>>, <<"a">>, <<"b">> }
CleanVals == { <<>>, <<"a">>, <<"b", EQ, "a">> }
Loaded == lastOp.op \notin {"start", "restart"}
Clean_load == Config_load(TRUE, "ok")
Clean_save == Loaded /\ Config_save("ok")
Clean_set(key, value) == Loaded /\ Config_set(key, value, "ok")
Clean_get(key) == Loaded /\ Config_get(key)
Clean_restart == Restart
NextClean ==
    \/ Clean_load
    \/ Clean_save
    \/ \E key \in CleanKeys, value \in CleanVals : Clean_set(key, value)
    \/ \E key \in QueryInputs : Clean_get(key)
    \/ Clean_restart
SpecClean == Init /\ [][NextClean]_vars

\* the Paths registry
InitPaths == ConfigIdle /\ PathsInit
NextPaths ==
    \/ \E n \in 0..Len(Categories) : Paths_init(n)
    \/ \E outcome \in {"threw", "crashed"} : Paths_init_null(outcome)
    \/ \E d \in dirs : RemoveDir(d)
SpecPaths == InitPaths /\ [][NextPaths]_vars

-----------------------------------------------------------------------------
(* Properties *)

Chars(str) == { str[i] : i \in 1..Len(str) }
NoEqNl(str) == EQ \notin Chars(str) /\ NL \notin Chars(str)
NoNl(str) == NL \notin Chars(str)
Lookup(m, k) == IF k \in DOMAIN m THEN m[k] ELSE <<>>

\* C1 (round trip): when a mapping whose keys and values hold no '=' and no
\* newline has been saved, and a new process with an empty store then loads the
\* file, the store equals the mapping that was saved.
C1_RoundTrip ==
    ( /\ lastOp.op = "load" /\ lastOp.out = "parsed" /\ lastOp.prev = "fresh"
      /\ onDisk.saved
      /\ \A k \in DOMAIN onDisk.vals : NoEqNl(k) /\ NoEqNl(onDisk.vals[k]) )
    => s_values = onDisk.vals

C1_Witness ==
    /\ lastOp.op = "load" /\ lastOp.out = "parsed" /\ lastOp.prev = "fresh"
    /\ onDisk.saved
    /\ \A k \in DOMAIN onDisk.vals : NoEqNl(k) /\ NoEqNl(onDisk.vals[k])
    /\ Cardinality(DOMAIN onDisk.vals) = 2
    /\ s_values = onDisk.vals

\* C2 (get): get(k) gives the value of the latest set(k, v) or loaded line for
\* k, and the empty string for a key that was neither set nor loaded; the
\* value a get() call returned is that value.
C2_GetLatest ==
    /\ \A k \in QueryInputs \cup DOMAIN s_values \cup DOMAIN recent :
          get(s_values, k).ret = Lookup(recent, k)
    /\ lastOp.op = "get" => lastOp.val = Lookup(recent, lastOp.key)

C2_Witness ==
    /\ lastOp.op = "get"
    /\ lastOp.key = <<"a">>
    /\ lastOp.val = <<NL>>
    /\ <<"b">> \notin DOMAIN recent
    /\ get(s_values, <<"b">>).ret = <<>>
    /\ file.exists /\ EntriesOf(file.data)[<<"a">>] # <<NL>>

\* the total length of the texts key=value\n of the entries
RECURSIVE SumLen(_, _)
SumLen(m, keys) ==
    IF keys = {} THEN 0
    ELSE LET k == CHOOSE x \in keys : TRUE
         IN  Len(k) + 1 + Len(m[k]) + 1 + SumLen(m, keys \ {k})

\* the lines of the file and the texts key=value of the entries, as bags
LineCount(f, text) ==
    Cardinality({ i \in 1..Len(LinesOf(f.data)) : LinesOf(f.data)[i] = text })
EntryCount(m, text) ==
    Cardinality({ k \in DOMAIN m : k \o <<EQ>> \o m[k] = text })
OneLinePerEntry(f, m) ==
    /\ f.exists
    /\ \A i \in 1..Len(LinesOf(f.data)) :
          LineCount(f, LinesOf(f.data)[i]) = EntryCount(m, LinesOf(f.data)[i])
    /\ \A k \in DOMAIN m :
          LineCount(f, k \o <<EQ>> \o m[k]) = EntryCount(m, k \o <<EQ>> \o m[k])

\* C3 as stated: right after any set() that wrote the file, the file holds
\* exactly one line key=value for each entry of the store and no other line.
C3_OneLinePerEntry_Always ==
    (lastOp.op = "set" /\ lastOp.out = "ok") => OneLinePerEntry(file, s_values)

\* C3 amended: right after any set() that wrote the file, the file is the
\* text key=value\n of every entry of the store and nothing else, whatever it
\* held before; that is one line per entry and no other line when no key and
\* no value of the store holds a newline.
C3_OneLinePerEntry ==
    (lastOp.op = "set" /\ lastOp.out = "ok") =>
        /\ file.exists
        /\ Len(file.data) = SumLen(s_values, DOMAIN s_values)
        /\ \A k \in DOMAIN s_values :
              \E i \in 0..Len(file.data) :
                 SubSeq(file.data, i + 1, i + Len(k) + Len(s_values[k]) + 2)
                    = k \o <<EQ>> \o s_values[k] \o <<NL>>
        /\ (\A k \in DOMAIN s_values : NoNl(k) /\ NoNl(s_values[k]))
              => OneLinePerEntry(file, s_values)

C3_Witness ==
    /\ lastOp.op = "set" /\ lastOp.out = "ok"
    /\ Cardinality(DOMAIN s_values) = 2
    /\ \A k \in DOMAIN s_values : NoNl(k) /\ NoNl(s_values[k])
    /\ OneLinePerEntry(file, s_values)

\* the file is the text key=value\n of every entry of m and nothing else
HoldsEntries(f, m) ==
    /\ f.exists
    /\ Len(f.data) = SumLen(m, DOMAIN m)
    /\ \A k \in DOMAIN m :
          \E i \in 0..Len(f.data) :
             SubSeq(f.data, i + 1, i + Len(k) + Len(m[k]) + 2)
                = k \o <<EQ>> \o m[k] \o <<NL>>

Failed(out) == out \in {"openfail", "threw"}

C5_LineParsing ==
    [][ (lastOp'.op = "load" /\ lastOp'.out = "parsed") =>
            s_values' = Override(s_values, EntriesOf(file.data)) ]_vars

C5_Witness ==
    /\ lastOp.op = "load" /\ lastOp.out = "parsed"
    /\ \E i \in 1..Len(LinesOf(file.data)) : LinesOf(file.data)[i] = <<"b">>
    /\ \E i \in 1..Len(LinesOf(file.data)) : LinesOf(file.data)[i] = <<"a", EQ, "a">>
    /\ \E i \in 1..Len(LinesOf(file.data)) : LinesOf(file.data)[i] = <<"a", EQ, "b", EQ, "a">>
    /\ <<"b">> \notin DOMAIN s_values
    /\ s_values[<<"a">>] = <<"b", EQ, "a">>
    /\ s_values[<<>>] = <<"a">>

NoSeparators(m) == \A k \in DOMAIN m : NoEqNl(k) /\ NoNl(m[k])

C8_SilentNoOp ==
    [][ Failed(lastOp'.out) =>
           (s_values' = s_values /\ file' = file /\ lastOp'.out # "threw") ]_vars

\* C9 (get changes nothing): a get() call leaves the store and the file as
\* they were, for a key that is present and for one that is absent; the keys
\* of the store are always those that were set or loaded, never one that was
\* only read.
C9_GetFrame ==
    /\ [](DOMAIN s_values = DOMAIN recent)
    /\ [][ lastOp'.op = "get" => (s_values' = s_values /\ file' = file) ]_vars

C9_Witness ==
    /\ lastOp.op = "get"
    /\ lastOp.key \notin DOMAIN s_values
    /\ lastOp.val = <<>>
    /\ s_values # EmptyMap
    /\ file.exists

\* C10 (memory and disk agree): in runs that begin with load(), with I/O that
\* succeeds, no other writer of the file, keys without '=' and newline and
\* values without newline, after every load() and every set() the entries the
\* lines of the file give (first '=' splits, lines without '=' skipped, the
\* last line of a key wins) are the entries of the store; and load() removes
\* no key from the store.
C10_MemoryDiskAgree ==
    /\ []( lastOp.op \in {"load", "set"} =>
             (file.exists /\ EntriesOf(file.data) = s_values) )
    /\ [][ lastOp'.op = "load" => \A k \in DOMAIN s_values : k \in DOMAIN s_values' ]_vars

C10_Witness ==
    /\ lastOp.op = "set"
    /\ Cardinality(DOMAIN s_values) >= 2
    /\ <<>> \in DOMAIN s_values
    /\ \E k \in DOMAIN s_values : EQ \in Chars(s_values[k])
    /\ EntriesOf(file.data) = s_values

\* the nine accessors, with the category each is named after
Accessors == << config, logs, models, knowledge, memory, backups, themes, hive, tmp >>

\* C7 (paths): after an init() that returned, with the home variable set,
\* root() is <home>/.machine_spirit/, each of the nine accessors gives root()
\* followed by its category name and "/", and that directory exists; an init()
\* right after it changes neither root() nor the directories that exist; and
\* root() is the empty string as long as no init() has assigned it.
C7_PathsInit ==
    /\ []( (pathOp.op = "init" /\ pathOp.out = "ok") =>
             /\ root = home \o "/.machine_spirit/"
             /\ \A i \in 1..Len(Categories) :
                   /\ Accessors[i] = root \o Categories[i] \o "/"
                   /\ Accessors[i] \in dirs )
    /\ [](~pathOp.ever => root = "")
    /\ [][ (pathOp.op = "init" /\ pathOp.out = "ok" /\ pathOp'.op = "init") =>
              (root' = root /\ dirs' = dirs) ]_vars

C7_Witness ==
    /\ pathOp.op = "init" /\ pathOp.out = "ok" /\ pathOp.prev = "init"
    /\ root = "/srv/u/.machine_spirit/"
    /\ tmp = "/srv/u/.machine_spirit/tmp/"
    /\ \A i \in 1..Len(Categories) : Accessors[i] \in dirs

====
